---- MODULE Spec2Model ----
(***************************************************************************)
(* Model of thecompaniesapi/sdk.py: the transport (HttpClient) and the     *)
(* dispatcher (Client).  Text is modelled as sequences of one-character    *)
(* strings so that str.replace, str.lower and str.upper are computed the   *)
(* way Python computes them.  Response bodies are sequences of JSON        *)
(* tokens.  The retry loop is the one urllib3's Retry object runs for the  *)
(* configuration given in HttpClient.__init__: a response is retried when  *)
(* the method is in allowed_methods and the status is in status_forcelist  *)
(* or, with retries left, is 413/429/503 and carries Retry-After; the      *)
(* attempt made with no retry left raises.  A response here is the one of  *)
(* the last hop: the redirects requests follows are not modelled.  An      *)
(* attempt may also fail on the network: a connection error is retried     *)
(* while retries are left, a read error only for a method in               *)
(* allowed_methods.                                                        *)
(*                                                                         *)
(* Spec is one caller using a Client; SpecHttp adds callers that build an  *)
(* HttpClient and call its verb methods; SpecConc is several threads       *)
(* looking attributes up on one Client.                                    *)
(***************************************************************************)
EXTENDS Integers, Sequences, FiniteSets, TLC

VARIABLES
    client,     \* "none" | "ready" | "failed": outcome of Client.__init__
    http,       \* HttpClient fields: api_token, visitor_id, headers
    cache,      \* instance attributes set by __getattr__: name -> closure
    pc,         \* "idle" | "sending" | "done": position of the caller
    op,         \* name accessed or invoked last
    kwargs,     \* keyword arguments of the invocation
    calls,      \* transport verb calls made by the invocation (a sequence)
                \* or by the caller of the transport
    wire,       \* the request session.request was asked to send
    sent,       \* the prepared request the session put on the wire
    attempts,   \* HTTP attempts made for the invocation so far
    total,      \* Retry.total still available to the request
    last,       \* response received last by the invocation
    result,     \* what the caller got: a value or an exception
    accesses,   \* attribute accesses and invocations made on the client
    resolutions,\* per operation name: runs of _create_operation_method
    hit,        \* the last lookup was served by the instance dictionary
    callers     \* threads inside an attribute lookup on the shared client

vars == <<client, http, cache, pc, op, kwargs, calls, wire, sent, attempts,
          total, last, result, accesses, resolutions, hit, callers>>

(***************************************************************************)
(* Bounds of the model.                                                    *)
(***************************************************************************)
\* largest number of keyword arguments passed to one invocation
MaxArgs == 2

\* largest number of attribute accesses and invocations on one client
MaxAccesses == 2

(***************************************************************************)
(* Text helpers.                                                           *)
(***************************************************************************)
Uppers == <<"A","B","C","D","E","F","G","H","I","J","K","L","M",
            "N","O","P","Q","R","S","T","U","V","W","X","Y","Z">>
Lowers == <<"a","b","c","d","e","f","g","h","i","j","k","l","m",
            "n","o","p","q","r","s","t","u","v","w","x","y","z">>

LowerChar(c) ==
    IF \E i \in DOMAIN Uppers : Uppers[i] = c
    THEN Lowers[CHOOSE i \in DOMAIN Uppers : Uppers[i] = c]
    ELSE c

UpperChar(c) ==
    IF \E i \in DOMAIN Lowers : Lowers[i] = c
    THEN Uppers[CHOOSE i \in DOMAIN Lowers : Lowers[i] = c]
    ELSE c

\* str.lower()
Lower(s) == [i \in DOMAIN s |-> LowerChar(s[i])]

\* str.upper()
Upper(s) == [i \in DOMAIN s |-> UpperChar(s[i])]

\* str.replace(old, new): every non-overlapping occurrence, left to right
RECURSIVE Replace(_, _, _)
Replace(s, old, new) ==
    IF Len(s) < Len(old) THEN s
    ELSE IF SubSeq(s, 1, Len(old)) = old
         THEN new \o Replace(SubSeq(s, Len(old) + 1, Len(s)), old, new)
         ELSE <<Head(s)>> \o Replace(Tail(s), old, new)

Digits == <<"0","1","2","3","4","5","6","7","8","9">>

\* str() of a non-negative int
RECURSIVE IntStr(_)
IntStr(n) ==
    IF n < 10 THEN <<Digits[n + 1]>>
    ELSE IntStr(n \div 10) \o <<Digits[(n % 10) + 1]>>

(***************************************************************************)
(* Python values passed as keyword arguments.                              *)
(***************************************************************************)
StrV(s)  == [t |-> "str",  s |-> s,    n |-> 0, items |-> <<>>]
IntV(n)  == [t |-> "int",  s |-> <<>>, n |-> n, items |-> <<>>]
BoolV(b) == [t |-> "bool", s |-> <<>>, n |-> IF b THEN 1 ELSE 0,
             items |-> <<>>]
NoneV    == [t |-> "none", s |-> <<>>, n |-> 0, items |-> <<>>]

\* a list element (k is empty) or a dict entry: the members are str, int,
\* bool or None
Elem(k, v) == [k |-> k, v |-> v]
ListV(items) == [t |-> "list", s |-> <<>>, n |-> 0, items |-> items]
DictV(items) == [t |-> "dict", s |-> <<>>, n |-> 0, items |-> items]

\* str(value)
Str(v) ==
    CASE v.t = "str"  -> v.s
      [] v.t = "int"  -> IntStr(v.n)
      [] v.t = "bool" -> IF v.n = 1 THEN <<"T","r","u","e">>
                                    ELSE <<"F","a","l","s","e">>
      [] v.t = "none" -> <<"N","o","n","e">>

\* json.dumps of a str, int, bool or None (strings here need no escapes)
DumpsAtom(v) ==
    CASE v.t = "str"  -> <<"\"">> \o v.s \o <<"\"">>
      [] v.t = "int"  -> IntStr(v.n)
      [] v.t = "bool" -> IF v.n = 1 THEN <<"t","r","u","e">>
                                    ELSE <<"f","a","l","s","e">>
      [] v.t = "none" -> <<"n","u","l","l">>

\* the members of a list or dict, joined by the item separator
RECURSIVE DumpsItems(_, _, _)
DumpsItems(items, item_sep, key_sep) ==
    IF items = <<>> THEN <<>>
    ELSE LET e == Head(items)
             one == IF e.k = <<>> THEN DumpsAtom(e.v)
                    ELSE <<"\"">> \o e.k \o <<"\"">> \o key_sep
                         \o DumpsAtom(e.v) IN
         one \o (IF Tail(items) = <<>> THEN <<>> ELSE item_sep)
             \o DumpsItems(Tail(items), item_sep, key_sep)

\* json.dumps(value, separators=(item_sep, key_sep))
json_dumps(v, item_sep, key_sep) ==
    CASE v.t = "list" -> <<"[">> \o DumpsItems(v.items, item_sep, key_sep)
                               \o <<"]">>
      [] v.t = "dict" -> <<"{">> \o DumpsItems(v.items, item_sep, key_sep)
                               \o <<"}">>
      [] OTHER        -> DumpsAtom(v)

\* characters urllib.parse.quote never encodes
AlwaysSafe ==
    {Uppers[i] : i \in DOMAIN Uppers} \cup {Lowers[i] : i \in DOMAIN Lowers}
        \cup {Digits[i] : i \in DOMAIN Digits} \cup {"_", ".", "-", "~"}

\* the %XX escape of a character outside AlwaysSafe
PercentCode(c) ==
    CASE c = " "  -> <<"%","2","0">>
      [] c = "\"" -> <<"%","2","2">>
      [] c = "%"  -> <<"%","2","5">>
      [] c = "+"  -> <<"%","2","B">>
      [] c = ","  -> <<"%","2","C">>
      [] c = "/"  -> <<"%","2","F">>
      [] c = ":"  -> <<"%","3","A">>
      [] c = "["  -> <<"%","5","B">>
      [] c = "]"  -> <<"%","5","D">>
      [] c = "{"  -> <<"%","7","B">>
      [] c = "}"  -> <<"%","7","D">>

\* urllib.parse.quote(string, safe)
RECURSIVE quote(_, _)
quote(string, safe) ==
    IF string = <<>> THEN <<>>
    ELSE (IF Head(string) \in AlwaysSafe \cup safe THEN <<Head(string)>>
          ELSE PercentCode(Head(string))) \o quote(Tail(string), safe)

\* urllib.parse.quote_plus(string): quote with a space kept, then ' ' -> '+'
quote_plus(string) ==
    LET q == quote(string, {" "}) IN
    [i \in DOMAIN q |-> IF q[i] = " " THEN "+" ELSE q[i]]

\* an Optional[...] argument: None or a value
None    == [some |-> FALSE, d |-> <<>>]
Some(d) == [some |-> TRUE,  d |-> d]

\* a dict restricted to a set of keys
Restrict(f, S) == [k \in S |-> f[k]]

(***************************************************************************)
(* The operations table and the arguments callers pass.                    *)
(***************************************************************************)
\* generated operations_map: name -> {path, method, pathParams}
operations_map ==
    ("fetchApiHealth" :>
        [path |-> <<"/">>, method |-> <<"G","E","T">>])
 @@ ("fetchCompany" :>
        [path |-> <<"/","c","/","{","a","}","/","{","s","}">>,
         method |-> <<"G","E","T">>, pathParams |-> <<"a">>])
 @@ ("deleteList" :>
        [path |-> <<"/","l","/","{","a","}","/","{","b","}">>,
         method |-> <<"d","e","l","e","t","e">>, pathParams |-> <<"b","a">>])
 @@ ("searchCompanies" :>
        [path |-> <<"/","s">>,
         method |-> <<"P","O","S","T">>, pathParams |-> <<>>])
 @@ ("updateList" :>
        [path |-> <<"/","l","/","{","a","}">>,
         method |-> <<"P","u","t">>, pathParams |-> <<"a","b">>])
 @@ ("toggleList" :>
        [path |-> <<"/","l","/","{","a","}","/","{","b","}">>,
         method |-> <<"P","A","T","C","H">>, pathParams |-> <<"a","b">>])
 @@ ("traceApi" :>
        [path |-> <<"/">>, method |-> <<"T","R","A","C","E">>])

\* attributes a Client instance has without __getattr__
InstanceAttrs == {"http", "_operations_map"}

\* names a caller accesses on the client
AccessNames == DOMAIN operations_map \cup InstanceAttrs \cup {"non_existent_method"}

\* argument names (one character each) and the values callers pass for them
ArgNames == {"a", "b", "s"}

ArgValues(k) ==
    CASE k = "a" -> {StrV(<<"x">>), StrV(<<"{","b","}">>), IntV(5)}
      [] k = "b" -> {StrV(<<"y">>), NoneV}
      [] k = "s" -> {IntV(10), BoolV(TRUE)}

AllValues == UNION {ArgValues(k) : k \in ArgNames}

KwargsSet ==
    UNION { {f \in [D -> AllValues] : \A k \in D : f[k] \in ArgValues(k)} :
            D \in {D \in SUBSET ArgNames : Cardinality(D) <= MaxArgs} }

(***************************************************************************)
(* Client._create_operation_method and the closure it returns.             *)
(***************************************************************************)
\* the values the closure captures: path, method.lower(), pathParams or []
create_operation_method(operation_config) ==
    [path        |-> operation_config.path,
     method      |-> Lower(operation_config.method),
     path_params |-> IF "pathParams" \in DOMAIN operation_config
                     THEN operation_config.pathParams ELSE <<>>]

\* a slip in the loop: the value is read with [] and stays in remaining_params
RECURSIVE PopPathParams_keep(_, _, _)
PopPathParams_keep(names, popped, remaining) ==
    IF names = <<>> THEN [popped |-> popped, remaining |-> remaining]
    ELSE IF Head(names) \in DOMAIN remaining
         THEN PopPathParams_keep(Tail(names), Append(popped, Head(names)),
                                 remaining)
         ELSE PopPathParams_keep(Tail(names), popped, remaining)

\* the loop over path_params: names popped from remaining_params, in order
RECURSIVE PopPathParams(_, _, _)
PopPathParams(names, popped, remaining) ==
    IF names = <<>> THEN [popped |-> popped, remaining |-> remaining]
    ELSE IF Head(names) \in DOMAIN remaining
         THEN PopPathParams(Tail(names), Append(popped, Head(names)),
                            Restrict(remaining, DOMAIN remaining \ {Head(names)}))
         ELSE PopPathParams(Tail(names), popped, remaining)

\* keys of path_params_dict, in insertion order
path_params_dict(m, kw) == PopPathParams(m.path_params, <<>>, kw).popped

\* remaining_params after the loop
remaining_params(m, kw) == PopPathParams(m.path_params, <<>>, kw).remaining

\* '{' + param_name + '}'
Placeholder(param_name) == <<"{", param_name, "}">>

\* the loop over path_params_dict.items(): one str.replace after the other
RECURSIVE ReplaceAll(_, _, _)
ReplaceAll(path, names, kw) ==
    IF names = <<>> THEN path
    ELSE ReplaceAll(Replace(path, Placeholder(Head(names)), Str(kw[Head(names)])),
                    Tail(names), kw)

\* a slip: the template is sent as it is
final_path_template(m, kw) == m.path

\* final_path after the loop
final_path(m, kw) == ReplaceAll(m.path, path_params_dict(m, kw), kw)

Get    == <<"g","e","t">>
Post   == <<"p","o","s","t">>
Put    == <<"p","u","t">>
Patch  == <<"p","a","t","c","h">>
Delete == <<"d","e","l","e","t","e">>

\* methods routed with params=remaining_params
QueryVerbs == {Get, Delete}

\* methods routed with json_data=remaining_params
BodyVerbs == {Post, Put, Patch}

\* a slip in the routing: every verb is given params=remaining_params
operation_method_all_params(m, kw) ==
    IF m.method \in QueryVerbs \cup BodyVerbs
    THEN [kind |-> "call", verb |-> m.method, path |-> final_path(m, kw),
          params |-> Some(remaining_params(m, kw)), json_data |-> None]
    ELSE [kind |-> "raise", verb |-> m.method, path |-> final_path(m, kw),
          params |-> None, json_data |-> None]

\* a slip in the routing: the chain ends in a plain else that issues a GET
operation_method_default_get(m, kw) ==
    IF m.method \in BodyVerbs
    THEN [kind |-> "call", verb |-> m.method, path |-> final_path(m, kw),
          params |-> None, json_data |-> Some(remaining_params(m, kw))]
    ELSE [kind |-> "call",
          verb |-> IF m.method \in QueryVerbs THEN m.method ELSE Get,
          path |-> final_path(m, kw),
          params |-> Some(remaining_params(m, kw)), json_data |-> None]

\* the routing if/elif chain: the transport verb call made, or the ValueError
operation_method(m, kw) ==
    IF m.method \in QueryVerbs
    THEN [kind |-> "call", verb |-> m.method, path |-> final_path(m, kw),
          params |-> Some(remaining_params(m, kw)), json_data |-> None]
    ELSE IF m.method \in BodyVerbs
    THEN [kind |-> "call", verb |-> m.method, path |-> final_path(m, kw),
          params |-> None, json_data |-> Some(remaining_params(m, kw))]
    ELSE [kind |-> "raise", verb |-> m.method, path |-> final_path(m, kw),
          params |-> None, json_data |-> None]

(***************************************************************************)
(* HttpClient: headers, query serialization, request preparation.          *)
(***************************************************************************)
\* Python truthiness of an Optional[str]
Truthy(o) == o.some /\ o.d # ""

\* the api_url default, already without a trailing '/'
api_url == <<"https://api.thecompaniesapi.com">>

\* a slip in _setup_default_headers: `if self.api_token is not None`
setup_default_headers_token_not_none(api_token, visitor_id) ==
    [h \in {"Content-Type", "Accept", "User-Agent"}
          \cup (IF api_token.some THEN {"Authorization"} ELSE {})
          \cup (IF Truthy(visitor_id) THEN {"Tca-Visitor-Id"} ELSE {}) |->
        CASE h = "Content-Type"   -> <<"application/json">>
          [] h = "Accept"         -> <<"application/json">>
          [] h = "User-Agent"     -> <<"thecompaniesapi-python-sdk/0.0.1">>
          [] h = "Authorization"  -> <<"Basic ", api_token.d>>
          [] h = "Tca-Visitor-Id" -> <<visitor_id.d>>]

\* session.headers after _setup_default_headers
setup_default_headers(api_token, visitor_id) ==
    [h \in {"Content-Type", "Accept", "User-Agent"}
          \cup (IF Truthy(api_token) THEN {"Authorization"} ELSE {})
          \cup (IF Truthy(visitor_id) THEN {"Tca-Visitor-Id"} ELSE {}) |->
        CASE h = "Content-Type"   -> <<"application/json">>
          [] h = "Accept"         -> <<"application/json">>
          [] h = "User-Agent"     -> <<"thecompaniesapi-python-sdk/0.0.1">>
          [] h = "Authorization"  -> <<"Basic ", api_token.d>>
          [] h = "Tca-Visitor-Id" -> <<visitor_id.d>>]

\* a slip in the serializer: the bool branch is missing, str() decides
SerializeValue_bool_as_str(v) ==
    IF v.t \in {"dict", "list"}
    THEN quote(json_dumps(v, <<",">>, <<":">>), {"/"})
    ELSE Str(v)

\* a slip in the serializer: the JSON text is stored without quote()
SerializeValue_no_quote(v) ==
    IF v.t \in {"dict", "list"} THEN json_dumps(v, <<",">>, <<":">>)
    ELSE IF v.t = "bool" THEN Lower(Str(v))
    ELSE Str(v)

\* one value of the serialized dict (the value is not None)
SerializeValue(v) ==
    IF v.t \in {"dict", "list"}
    THEN quote(json_dumps(v, <<",">>, <<":">>), {"/"})
    ELSE IF v.t = "bool" THEN Lower(Str(v))
    ELSE Str(v)

\* _serialize_query_params: None values are skipped
serialize_query_params(params) ==
    [k \in {k \in DOMAIN params : params[k].t # "none"} |->
        SerializeValue(params[k])]

\* _prepare_url
prepare_url(path) ==
    IF path # <<>> /\ Head(path) = "/" THEN api_url \o path
    ELSE api_url \o <<"/">> \o path

\* the arguments _make_request hands to session.request
make_request(method, path, params, json_data, headers) ==
    [method  |-> Upper(method),
     url     |-> prepare_url(path),
     params  |-> IF params.some /\ DOMAIN params.d # {}
                 THEN Some(serialize_query_params(params.d)) ELSE None,
     json    |-> json_data,
     headers |-> IF headers.some /\ DOMAIN headers.d # {}
                 THEN headers.d ELSE <<>>]

\* HttpClient.get / post / put / patch / delete: the verb's own method name
\* and the keyword arguments it forwards
verb_request(call) ==
    LET headers == IF "headers" \in DOMAIN call THEN call.headers ELSE None IN
    CASE call.verb = Get    -> make_request(<<"G","E","T">>, call.path,
                                            call.params, None, headers)
      [] call.verb = Post   -> make_request(<<"P","O","S","T">>, call.path,
                                            call.params, call.json_data,
                                            headers)
      [] call.verb = Put    -> make_request(<<"P","U","T">>, call.path,
                                            call.params, call.json_data,
                                            headers)
      [] call.verb = Patch  -> make_request(<<"P","A","T","C","H">>, call.path,
                                            call.params, call.json_data,
                                            headers)
      [] call.verb = Delete -> make_request(<<"D","E","L","E","T","E">>,
                                            call.path, call.params, None,
                                            headers)

NoRequest == [method |-> <<>>, url |-> <<>>, params |-> None, json |-> None,
              headers |-> <<>>]

\* the session merges its headers with the request's; the request's win
merge_setting(request_setting, session_setting) ==
    [h \in DOMAIN session_setting \cup DOMAIN request_setting |->
        IF h \in DOMAIN request_setting THEN request_setting[h]
        ELSE session_setting[h]]

\* the query string the session builds from params: every key and value
\* through quote_plus (kept per key; the order is the dict's)
encode_params(params) ==
    IF params.some
    THEN [k \in DOMAIN params.d |-> quote_plus(params.d[k])]
    ELSE <<>>

\* the body the session builds from json=: json.dumps with its default
\* separators, sent as it is (kept per member; the order is the dict's)
encode_json(json_data) ==
    IF json_data.some
    THEN Some([k \in DOMAIN json_data.d |->
                  json_dumps(json_data.d[k], <<",", " ">>, <<":", " ">>)])
    ELSE None

\* session.request: the prepared request that goes on the wire
session_request(session_headers, req) ==
    [method  |-> req.method,
     url     |-> req.url,
     query   |-> encode_params(req.params),
     headers |-> merge_setting(req.headers, session_headers),
     body    |-> encode_json(req.json)]

NoSent == [method |-> <<>>, url |-> <<>>, query |-> <<>>, headers |-> <<>>,
           body |-> None]

(***************************************************************************)
(* The Retry strategy mounted on the session.                              *)
(***************************************************************************)
\* Retry(total=3, ...)
RetryTotal == 3

\* status_forcelist
status_forcelist == {429, 500, 502, 503, 504}

\* allowed_methods
allowed_methods == {<<"H","E","A","D">>, <<"G","E","T">>,
                    <<"O","P","T","I","O","N","S">>, <<"P","O","S","T">>,
                    <<"P","U","T">>, <<"D","E","L","E","T","E">>}

\* statuses for which Retry honours a Retry-After header (library default,
\* respect_retry_after_header is left at True)
RETRY_AFTER_STATUS_CODES == {413, 429, 503}

\* Retry.is_retry(method, status_code, has_retry_after)
is_retry(method, resp, remaining) ==
    /\ method \in allowed_methods
    /\ \/ resp.status \in status_forcelist
       \/ /\ remaining # 0
          /\ resp.retry_after
          /\ resp.status \in RETRY_AFTER_STATUS_CODES

(***************************************************************************)
(* Responses and response.json().                                          *)
(***************************************************************************)
StrToks == {"\"status\"", "\"ok\""}
Atoms   == StrToks \cup {"1", "true", "null"}

JAtom(tok)    == [t |-> "atom", tok |-> tok, items |-> <<>>]
JArr(items)   == [t |-> "arr",  tok |-> "",  items |-> items]
JObj(members) == [t |-> "obj",  tok |-> "",  items |-> members]

ParseFail == [ok |-> FALSE, v |-> JAtom(""), next |-> 0]

RECURSIVE ParseValue(_, _), ParseItems(_, _, _), ParseMembers(_, _, _)
\* one JSON value starting at token i
ParseValue(toks, i) ==
    IF i > Len(toks) THEN ParseFail
    ELSE IF toks[i] \in Atoms
         THEN [ok |-> TRUE, v |-> JAtom(toks[i]), next |-> i + 1]
    ELSE IF toks[i] = "["
         THEN IF i + 1 <= Len(toks) /\ toks[i + 1] = "]"
              THEN [ok |-> TRUE, v |-> JArr(<<>>), next |-> i + 2]
              ELSE ParseItems(toks, i + 1, <<>>)
    ELSE IF toks[i] = "{"
         THEN IF i + 1 <= Len(toks) /\ toks[i + 1] = "}"
              THEN [ok |-> TRUE, v |-> JObj(<<>>), next |-> i + 2]
              ELSE ParseMembers(toks, i + 1, <<>>)
    ELSE ParseFail

\* the items of an array, after '[' or ','
ParseItems(toks, i, acc) ==
    LET r == ParseValue(toks, i) IN
    IF ~r.ok \/ r.next > Len(toks) THEN ParseFail
    ELSE IF toks[r.next] = "]"
         THEN [ok |-> TRUE, v |-> JArr(Append(acc, r.v)), next |-> r.next + 1]
    ELSE IF toks[r.next] = ","
         THEN ParseItems(toks, r.next + 1, Append(acc, r.v))
    ELSE ParseFail

\* the members of an object, after '{' or ','
ParseMembers(toks, i, acc) ==
    IF i + 1 > Len(toks) \/ toks[i] \notin StrToks \/ toks[i + 1] # ":"
    THEN ParseFail
    ELSE LET r == ParseValue(toks, i + 2) IN
         IF ~r.ok \/ r.next > Len(toks) THEN ParseFail
         ELSE IF toks[r.next] = "}"
              THEN [ok |-> TRUE, v |-> JObj(Append(acc, <<toks[i], r.v>>)),
                    next |-> r.next + 1]
         ELSE IF toks[r.next] = ","
              THEN ParseMembers(toks, r.next + 1, Append(acc, <<toks[i], r.v>>))
         ELSE ParseFail

\* response.json(): the parsed value, or JSONDecodeError (ok = FALSE)
json_loads(text) ==
    LET r == ParseValue(text, 1) IN
    IF r.ok /\ r.next = Len(text) + 1 THEN r ELSE ParseFail

BodyObj   == <<"{", "\"status\"", ":", "\"ok\"", "}">>
BodyArr   == <<"[", "1", ",", "[", "]", "]">>
BodyPlain == <<"Plain", "text", "response">>
BodyCut   == <<"{", "\"status\"", ":">>
BodyEmpty == <<>>

Resp(status, retry_after, text) ==
    [status |-> status, retry_after |-> retry_after, text |-> text]

\* what the server may answer to one attempt
Responses ==
    { Resp(200, FALSE, BodyObj), Resp(200, FALSE, BodyPlain),
      Resp(201, FALSE, BodyArr), Resp(201, FALSE, BodyCut),
      Resp(204, FALSE, BodyEmpty),
      Resp(101, FALSE, BodyEmpty), Resp(304, FALSE, BodyEmpty),
      Resp(404, FALSE, BodyObj),
      Resp(413, TRUE, BodyEmpty), Resp(413, FALSE, BodyEmpty),
      Resp(429, TRUE, BodyObj), Resp(500, FALSE, BodyPlain),
      Resp(503, FALSE, BodyEmpty) }

NoResponse == Resp(0, FALSE, <<>>)

\* an attempt that ends without a response: the connection could not be
\* made, or it broke while the response was read
NetworkErrors == {"connect", "read"}

NetworkError(kind) == Resp(0, FALSE, <<kind>>)

\* Retry.increment(error=...): a read error on a method outside
\* allowed_methods is re-raised at once, any other error is retried until
\* total is spent
error_is_retried(method, kind, remaining) ==
    /\ remaining # 0
    /\ kind = "read" => method \in allowed_methods

\* response.raise_for_status() raises HTTPError
raises_for_status(resp) == 400 <= resp.status /\ resp.status < 600

(***************************************************************************)
(* What the caller gets.                                                   *)
(***************************************************************************)
NoResult ==
    [kind |-> "none", exc |-> "", msg |-> "", cause |-> "", val |-> <<>>]

Returned(val) ==
    [kind |-> "value", exc |-> "", msg |-> "", cause |-> "", val |-> val]

\* an attribute access that found the attribute
Attribute(name) ==
    [kind |-> "attr", exc |-> "", msg |-> "", cause |-> "", val |-> <<name>>]

\* raise exc(msg)
Raised(exc, msg) ==
    [kind |-> "raise", exc |-> exc, msg |-> msg, cause |-> "", val |-> <<>>]

\* raise ApiError(f"Request failed: {str(e)}") from e
ApiError(e) ==
    [kind |-> "raise", exc |-> "ApiError", msg |-> "Request failed: ",
     cause |-> e, val |-> <<>>]

\* the fallback payload {'data': response.text, 'status': response.status_code}
Fallback(resp) == [data |-> resp.text, status |-> resp.status]

\* a slip in the tail: no inner except, the JSONDecodeError reaches the
\* outer handler
handle_response_no_fallback(resp) ==
    IF raises_for_status(resp) THEN ApiError("HTTPError")
    ELSE IF ~json_loads(resp.text).ok THEN ApiError("JSONDecodeError")
    ELSE Returned(json_loads(resp.text).v)

\* the tail of _make_request once session.request has returned resp
handle_response(resp) ==
    IF raises_for_status(resp)
    THEN ApiError("HTTPError")
    ELSE IF json_loads(resp.text).ok
         THEN Returned(json_loads(resp.text).v)
         ELSE Returned(Fallback(resp))

(***************************************************************************)
(* Client: construction and attribute lookup.                              *)
(***************************************************************************)
TokenInputs == {None, Some(""), Some("test-token")}

VisitorInputs == {None, Some("visitor-123")}

\* the visitor id given to Client(...); a visitor id only adds a header, and
\* ConstructHttp draws both cases
ClientVisitorInputs == {Some("visitor-123")}

NoHttp == [api_token |-> None, visitor_id |-> None, headers |-> <<>>]

\* HttpClient.__init__
HttpClient(api_token, visitor_id) ==
    [api_token  |-> api_token,
     visitor_id |-> visitor_id,
     headers    |-> setup_default_headers(api_token, visitor_id)]

\* a slip in the guard: `if api_token is None`
token_missing_is_none(api_token) == ~api_token.some

\* the guard of Client.__init__: `if not api_token`
token_missing(api_token) == ~Truthy(api_token)

\* setattr(self, name, method): the instance dictionary with the entry set
setattr(c, name, method) == (name :> method) @@ c

\* the resolution counts after a lookup of name
Resolved(counts, name, created) ==
    IF created THEN [counts EXCEPT ![name] = @ + 1] ELSE counts

\* a slip in __getattr__: setattr runs before the membership test
getattr_set_first(c, name) ==
    LET method == create_operation_method(
                    IF name \in DOMAIN operations_map THEN operations_map[name]
                    ELSE operations_map["fetchApiHealth"]) IN
    IF name \in DOMAIN c
    THEN [found |-> TRUE, method |-> c[name], cache |-> c,
          created |-> FALSE, hit |-> TRUE]
    ELSE [found |-> name \in DOMAIN operations_map, method |-> method,
          cache |-> setattr(c, name, method),
          created |-> name \in DOMAIN operations_map, hit |-> FALSE]

\* a slip in __getattr__: the method is returned without setattr
getattr_no_setattr(c, name) ==
    IF name \in DOMAIN operations_map
    THEN [found |-> TRUE,
          method |-> create_operation_method(operations_map[name]),
          cache |-> c, created |-> TRUE, hit |-> FALSE]
    ELSE [found |-> FALSE, method |-> create_operation_method(
                                        operations_map["fetchApiHealth"]),
          cache |-> c, created |-> FALSE, hit |-> FALSE]

\* a slip in _create_operation_method: the closures read path, method and
\* path_params from variables shared by all of them, so every cached
\* method follows the descriptor resolved last
getattr_shared_closure(c, name) ==
    IF name \in DOMAIN c
    THEN [found |-> TRUE, method |-> c[name], cache |-> c,
          created |-> FALSE, hit |-> TRUE]
    ELSE IF name \in DOMAIN operations_map
    THEN LET method == create_operation_method(operations_map[name]) IN
         [found |-> TRUE, method |-> method,
          cache |-> [n \in DOMAIN c \cup {name} |-> method],
          created |-> TRUE, hit |-> FALSE]
    ELSE [found |-> FALSE, method |-> create_operation_method(
                                        operations_map["fetchApiHealth"]),
          cache |-> c, created |-> FALSE, hit |-> FALSE]

\* attribute lookup on the client: the instance dictionary first, then
\* __getattr__, which resolves and caches, or raises AttributeError
getattr(c, name) ==
    IF name \in DOMAIN c
    THEN [found |-> TRUE, method |-> c[name], cache |-> c,
          created |-> FALSE, hit |-> TRUE]
    ELSE IF name \in DOMAIN operations_map
    THEN LET method == create_operation_method(operations_map[name]) IN
         [found |-> TRUE, method |-> method,
          cache |-> setattr(c, name, method),
          created |-> TRUE, hit |-> FALSE]
    ELSE [found |-> FALSE, method |-> create_operation_method(
                                        operations_map["fetchApiHealth"]),
          cache |-> c, created |-> FALSE, hit |-> FALSE]

(***************************************************************************)
(* Actions.                                                                *)
(***************************************************************************)
\* threads that share one client
NumCallers == 2

Callers == 1..NumCallers

NoMethod == [path |-> <<>>, method |-> <<>>, path_params |-> <<>>]

\* a thread's position in an attribute lookup, the name it looks up, the
\* method it holds and whether AttributeError was raised to it
Caller(at, name, method, err) ==
    [pc |-> at, name |-> name, method |-> method, err |-> err]

NoCaller == Caller("idle", "", NoMethod, FALSE)

Init ==
    /\ client = "none"
    /\ http = NoHttp
    /\ cache = <<>>
    /\ pc = "idle"
    /\ op = ""
    /\ kwargs = <<>>
    /\ calls = <<>>
    /\ wire = NoRequest
    /\ sent = NoSent
    /\ attempts = 0
    /\ total = 0
    /\ last = NoResponse
    /\ result = NoResult
    /\ accesses = 0
    /\ resolutions = [n \in DOMAIN operations_map |-> 0]
    /\ hit = FALSE
    /\ callers = [t \in Callers |-> NoCaller]

\* Client(api_token=..., visitor_id=...)
Construct(api_token, visitor_id) ==
    /\ client \in {"none", "failed"}
    /\ IF token_missing(api_token)
       THEN /\ client' = "failed"
            /\ result' = Raised("ValueError", "api_token is required")
            /\ http' = http
       ELSE /\ client' = "ready"
            /\ result' = NoResult
            /\ http' = HttpClient(api_token, visitor_id)
    /\ UNCHANGED <<cache, pc, op, kwargs, calls, wire, sent, attempts, total,
                   last, accesses, resolutions, hit, callers>>

\* client.<name> without a call (hasattr, getattr)
Access(name) ==
    /\ client = "ready"
    /\ pc = "idle"
    /\ accesses < MaxAccesses
    /\ LET a == IF name \in InstanceAttrs
                THEN [found |-> TRUE, cache |-> cache, created |-> FALSE,
                      hit |-> TRUE]
                ELSE getattr(cache, name) IN
       /\ cache' = a.cache
       /\ resolutions' = Resolved(resolutions, name, a.created)
       /\ hit' = a.hit
       /\ result' = IF a.found THEN Attribute(name)
                    ELSE Raised("AttributeError", "has no attribute")
    /\ pc' = "done"
    /\ op' = name
    /\ kwargs' = <<>>
    /\ calls' = <<>>
    /\ wire' = NoRequest
    /\ sent' = NoSent
    /\ attempts' = 0
    /\ total' = 0
    /\ last' = NoResponse
    /\ accesses' = accesses + 1
    /\ UNCHANGED <<client, http, callers>>

\* client.<name>(**kw): lookup, operation_method up to session.request
Invoke(name, kw) ==
    /\ client = "ready"
    /\ pc = "idle"
    /\ accesses < MaxAccesses
    /\ LET a   == getattr(cache, name)
           out == operation_method(a.method, kw) IN
       /\ cache' = a.cache
       /\ resolutions' = Resolved(resolutions, name, a.created)
       /\ hit' = a.hit
       /\ IF ~a.found
          THEN /\ result' = Raised("AttributeError", "has no attribute")
               /\ calls' = <<>>
               /\ wire' = NoRequest
               /\ sent' = NoSent
               /\ attempts' = 0
               /\ total' = 0
               /\ pc' = "done"
          ELSE IF out.kind = "raise"
          THEN /\ result' = Raised("ValueError", "Unsupported HTTP method: ")
               /\ calls' = <<>>
               /\ wire' = NoRequest
               /\ sent' = NoSent
               /\ attempts' = 0
               /\ total' = 0
               /\ pc' = "done"
          ELSE /\ result' = NoResult
               /\ calls' = <<out>>
               /\ wire' = verb_request(out)
               /\ sent' = session_request(http.headers, verb_request(out))
               /\ attempts' = 1
               /\ total' = RetryTotal
               /\ pc' = "sending"
    /\ op' = name
    /\ kwargs' = kw
    /\ last' = NoResponse
    /\ accesses' = accesses + 1
    /\ UNCHANGED <<client, http, callers>>

\* the server answers the attempt in flight: the Retry decision, then the
\* tail of _make_request
Respond(resp) ==
    /\ pc = "sending"
    /\ last' = resp
    /\ IF is_retry(wire.method, resp, total)
       THEN IF total = 0
            THEN \* Retry exhausted: MaxRetryError, RetryError, ApiError
                 /\ result' = ApiError("RetryError")
                 /\ pc' = "done"
                 /\ UNCHANGED <<attempts, total>>
            ELSE /\ total' = total - 1
                 /\ attempts' = attempts + 1
                 /\ UNCHANGED <<pc, result>>
       ELSE /\ result' = handle_response(resp)
            /\ pc' = "done"
            /\ UNCHANGED <<attempts, total>>
    /\ UNCHANGED <<client, http, cache, op, kwargs, calls, wire, sent,
                   accesses, resolutions, hit, callers>>

\* the attempt in flight fails on the network (no response): the Retry
\* decision for an error, then the except clause of _make_request
NetworkFail(kind) ==
    /\ pc = "sending"
    /\ last' = NetworkError(kind)
    /\ IF error_is_retried(wire.method, kind, total)
       THEN /\ total' = total - 1
            /\ attempts' = attempts + 1
            /\ UNCHANGED <<pc, result>>
       ELSE /\ result' = ApiError("ConnectionError")
            /\ pc' = "done"
            /\ UNCHANGED <<attempts, total>>
    /\ UNCHANGED <<client, http, cache, op, kwargs, calls, wire, sent,
                   accesses, resolutions, hit, callers>>

\* the caller takes the value or the exception; the call's frame is gone
Return ==
    /\ pc = "done"
    /\ pc' = "idle"
    /\ op' = ""
    /\ kwargs' = <<>>
    /\ calls' = <<>>
    /\ wire' = NoRequest
    /\ sent' = NoSent
    /\ attempts' = 0
    /\ total' = 0
    /\ last' = NoResponse
    /\ result' = NoResult
    /\ hit' = FALSE
    /\ UNCHANGED <<client, http, cache, accesses, resolutions, callers>>

Next ==
    \/ \E t \in TokenInputs, v \in ClientVisitorInputs : Construct(t, v)
    \/ \E name \in AccessNames : Access(name)
    \/ \E name \in AccessNames \ InstanceAttrs, kw \in KwargsSet : Invoke(name, kw)
    \/ \E resp \in Responses : Respond(resp)
    \/ \E kind \in NetworkErrors : NetworkFail(kind)
    \/ Return

Spec == Init /\ [][Next]_vars

(***************************************************************************)
(* Several threads look attributes up on one constructed client.  Each    *)
(* dictionary read and each setattr is one step; threads interleave       *)
(* between them.                                                          *)
(***************************************************************************)
\* names the threads look up
ConcNames == {"fetchCompany", "searchCompanies", "non_existent_method"}

InitConc ==
    /\ client = "ready"
    /\ http = HttpClient(Some("test-token"), None)
    /\ cache = <<>>
    /\ pc = "idle"
    /\ op = ""
    /\ kwargs = <<>>
    /\ calls = <<>>
    /\ wire = NoRequest
    /\ sent = NoSent
    /\ attempts = 0
    /\ total = 0
    /\ last = NoResponse
    /\ result = NoResult
    /\ accesses = 0
    /\ resolutions = [n \in DOMAIN operations_map |-> 0]
    /\ hit = FALSE
    /\ callers = [t \in Callers |-> NoCaller]

\* client.<name>: the instance dictionary is read; a miss enters __getattr__
Lookup(t, name) ==
    /\ callers[t].pc \in {"idle", "done"}
    /\ callers' = [callers EXCEPT ![t] =
                      IF name \in DOMAIN cache
                      THEN Caller("done", name, cache[name], FALSE)
                      ELSE Caller("getattr", name, NoMethod, FALSE)]
    /\ UNCHANGED <<client, http, cache, pc, op, kwargs, calls, wire, sent,
                   attempts, total, last, result, accesses, resolutions, hit>>

\* __getattr__: the membership test, then _create_operation_method or
\* AttributeError
Resolve(t) ==
    /\ callers[t].pc = "getattr"
    /\ LET name == callers[t].name IN
       IF name \in DOMAIN operations_map
       THEN /\ callers' = [callers EXCEPT ![t] =
                   Caller("setattr", name,
                          create_operation_method(operations_map[name]),
                          FALSE)]
            /\ resolutions' = Resolved(resolutions, name, TRUE)
       ELSE /\ callers' = [callers EXCEPT ![t] =
                   Caller("done", name, NoMethod, TRUE)]
            /\ UNCHANGED resolutions
    /\ UNCHANGED <<client, http, cache, pc, op, kwargs, calls, wire, sent,
                   attempts, total, last, result, accesses, hit>>

\* a slip: the cache refuses a name that is already there
SetAttr_once(t) ==
    /\ callers[t].pc = "setattr"
    /\ IF callers[t].name \in DOMAIN cache
       THEN /\ callers' = [callers EXCEPT ![t] =
                   Caller("done", callers[t].name, NoMethod, TRUE)]
            /\ UNCHANGED cache
       ELSE /\ cache' = setattr(cache, callers[t].name, callers[t].method)
            /\ callers' = [callers EXCEPT ![t].pc = "done"]
    /\ UNCHANGED <<client, http, pc, op, kwargs, calls, wire, sent, attempts,
                   total, last, result, accesses, resolutions, hit>>

\* __getattr__: setattr(self, name, method), then return method
SetAttr(t) ==
    /\ callers[t].pc = "setattr"
    /\ cache' = setattr(cache, callers[t].name, callers[t].method)
    /\ callers' = [callers EXCEPT ![t].pc = "done"]
    /\ UNCHANGED <<client, http, pc, op, kwargs, calls, wire, sent, attempts,
                   total, last, result, accesses, resolutions, hit>>

NextConc ==
    \/ \E t \in Callers, name \in ConcNames : Lookup(t, name)
    \/ \E t \in Callers : Resolve(t)
    \/ \E t \in Callers : SetAttr(t)

SpecConc == InitConc /\ [][NextConc]_vars

(***************************************************************************)
(* The transport used on its own: HttpClient(...) and its verb methods.    *)
(***************************************************************************)
\* largest number of query parameters passed to one verb call
MaxParams == 2

\* query parameter names and the values callers pass for them
ParamNames == {"query", "size", "simplified"}

ParamValues(k) ==
    CASE k = "query" ->
            {ListV(<<Elem(<<>>, StrV(<<"t","e","s","t">>))>>),
             DictV(<<Elem(<<"k","e","y">>, StrV(<<"v","a","l","u","e">>))>>),
             ListV(<<Elem(<<>>, StrV(<<"a","/","b">>)),
                     Elem(<<>>, BoolV(TRUE)), Elem(<<>>, NoneV)>>),
             StrV(<<"a"," ","b","/","c">>)}
      [] k = "size" -> {IntV(10), NoneV}
      [] k = "simplified" -> {BoolV(TRUE), BoolV(FALSE)}

ParamMaps ==
    UNION { {f \in [D -> UNION {ParamValues(k) : k \in ParamNames}] :
                \A k \in D : f[k] \in ParamValues(k)} :
            D \in {D \in SUBSET ParamNames : Cardinality(D) <= MaxParams} }

\* a JSON body a caller posts
BodyData ==
    ("name" :> StrV(<<"a"," ","b">>))
 @@ ("tags" :> ListV(<<Elem(<<>>, StrV(<<"x">>)), Elem(<<>>, BoolV(FALSE))>>))
 @@ ("page" :> NoneV)

\* per-request headers a caller passes
HeaderInputs ==
    {None, Some(<<>>),
     Some("X-Request-Id" :> <<"r1">>),
     Some("Authorization" :> <<"Bearer ", "other">>)}

\* the verb calls callers make on the transport
HttpCalls ==
    {[kind |-> "call", verb |-> Get, path |-> <<"c">>, params |-> Some(p),
      json_data |-> None, headers |-> None] : p \in ParamMaps}
    \cup
    {[kind |-> "call", verb |-> Delete, path |-> <<"c">>,
      params |-> Some("size" :> IntV(10)), json_data |-> None,
      headers |-> None]}
    \cup
    {[kind |-> "call", verb |-> v, path |-> <<"c">>, params |-> p,
      json_data |-> j, headers |-> None] :
        v \in BodyVerbs, j \in {None, Some(BodyData)},
        p \in {None, Some("query" :> ListV(<<Elem(<<>>,
                                  StrV(<<"t","e","s","t">>))>>))}}
    \cup
    {[kind |-> "call", verb |-> v, path |-> <<"c">>, params |-> None,
      json_data |-> None, headers |-> h] :
        v \in {Get, Post}, h \in HeaderInputs}

\* HttpClient(api_token=..., visitor_id=...) built by the caller
ConstructHttp(api_token, visitor_id) ==
    /\ client = "none"
    /\ client' = "transport"
    /\ http' = HttpClient(api_token, visitor_id)
    /\ UNCHANGED <<cache, pc, op, kwargs, calls, wire, sent, attempts, total,
                   last, result, accesses, resolutions, hit, callers>>

\* http.get / post / put / patch / delete called by the caller on the
\* transport it built, up to session.request
HttpRequest(call) ==
    /\ client = "transport"
    /\ pc = "idle"
    /\ accesses < MaxAccesses
    /\ pc' = "sending"
    /\ op' = "http"
    /\ kwargs' = <<>>
    /\ calls' = <<call>>
    /\ wire' = verb_request(call)
    /\ sent' = session_request(http.headers, verb_request(call))
    /\ attempts' = 1
    /\ total' = RetryTotal
    /\ last' = NoResponse
    /\ result' = NoResult
    /\ hit' = FALSE
    /\ accesses' = accesses + 1
    /\ UNCHANGED <<client, http, cache, resolutions, callers>>

NextHttp ==
    \/ Next
    \/ \E t \in TokenInputs, v \in VisitorInputs : ConstructHttp(t, v)
    \/ \E call \in HttpCalls : HttpRequest(call)

SpecHttp == Init /\ [][NextHttp]_vars

(***************************************************************************)
(* Vocabulary of the properties.                                           *)
(***************************************************************************)
Range(seq) == {seq[i] : i \in DOMAIN seq}

\* the caller's invocation reached a transport verb
Dispatched == pc \in {"sending", "done"} /\ calls # <<>>

\* the names the descriptor lists in pathParams
Listed(d) == IF "pathParams" \in DOMAIN d THEN Range(d.pathParams) ELSE {}

\* the arguments whose name the descriptor does not list
Unlisted(d, kw) == Restrict(kw, DOMAIN kw \ Listed(d))

UpperQueryVerbs == {<<"G","E","T">>, <<"D","E","L","E","T","E">>}

UpperBodyVerbs == {<<"P","O","S","T">>, <<"P","U","T">>, <<"P","A","T","C","H">>}

(***************************************************************************)
(* C1: whenever an operation whose method is GET, POST, PUT, PATCH or      *)
(* DELETE is invoked, the HTTP verb sent is the descriptor's method; for   *)
(* GET and DELETE the non-path arguments go to the verb as params and to   *)
(* the wire as the query (None values left out), with no body; for POST,   *)
(* PUT and PATCH they go as the JSON body, with no query.                  *)
(***************************************************************************)
C1_Routing ==
    Dispatched =>
        LET d   == operations_map[op]
            rem == Unlisted(d, kwargs)
            c   == calls[1] IN
        /\ wire.method = Upper(d.method)
        /\ Upper(d.method) \in UpperQueryVerbs =>
              /\ c.params = Some(rem)
              /\ c.json_data = None
              /\ wire.json = None
              /\ wire.params.some = (DOMAIN rem # {})
              /\ wire.params.some =>
                    DOMAIN wire.params.d = {k \in DOMAIN rem : rem[k] # NoneV}
        /\ Upper(d.method) \in UpperBodyVerbs =>
              /\ c.json_data = Some(rem)
              /\ c.params = None
              /\ wire.json = Some(rem)
              /\ wire.params = None

\* a POST is in flight with both of its arguments as the body and no query
C1_Witness ==
    /\ pc = "sending"
    /\ op = "searchCompanies"
    /\ DOMAIN kwargs = {"a", "s"}
    /\ wire.json = Some(kwargs)
    /\ wire.params = None

(***************************************************************************)
(* C2: the arguments of an invocation are partitioned exactly: the names   *)
(* consumed as path parameters are the argument names the descriptor       *)
(* lists in pathParams; every other argument, also one whose name is a     *)
(* placeholder of the path, is passed on with its value unchanged; no      *)
(* argument is in both parts or in neither.                                *)
(***************************************************************************)
\* the mapping the transport verb was given (params or json_data)
Passed(c) == IF c.params.some THEN c.params.d ELSE c.json_data.d

C2_Partition ==
    Dispatched =>
        LET d        == operations_map[op]
            consumed == Range(path_params_dict(cache[op], kwargs))
            passed   == Passed(calls[1]) IN
        /\ consumed = DOMAIN kwargs \cap Listed(d)
        /\ DOMAIN passed = DOMAIN kwargs \ Listed(d)
        /\ \A k \in DOMAIN passed : passed[k] = kwargs[k]
        /\ consumed \cap DOMAIN passed = {}
        /\ consumed \cup DOMAIN passed = DOMAIN kwargs

\* fetchCompany(a=5, s=10): s has a placeholder in the path but is not
\* listed, so it is passed on and its placeholder stays
C2_Witness ==
    /\ pc = "sending"
    /\ op = "fetchCompany"
    /\ kwargs = ("a" :> IntV(5)) @@ ("s" :> IntV(10))
    /\ calls[1].params = Some("s" :> IntV(10))
    /\ calls[1].path = <<"/","c","/","5","/","{","s","}">>

(***************************************************************************)
(* C3: the request path is the template with the placeholder of each       *)
(* supplied path parameter replaced by the string form of that             *)
(* parameter's own value, the other placeholders left as they are; a       *)
(* substituted value is not changed by the substitution of another         *)
(* parameter.                                                              *)
(***************************************************************************)
\* one pass over the template: each placeholder is filled from the arguments
RECURSIVE Fill(_, _, _)
Fill(path, kw, names) ==
    IF path = <<>> THEN <<>>
    ELSE IF /\ Len(path) >= 3
            /\ path[1] = "{"
            /\ path[3] = "}"
            /\ path[2] \in names \cap DOMAIN kw
         THEN Str(kw[path[2]]) \o Fill(SubSeq(path, 4, Len(path)), kw, names)
         ELSE <<Head(path)>> \o Fill(Tail(path), kw, names)

C3_OwnValue ==
    Dispatched =>
        calls[1].path = Fill(operations_map[op].path, kwargs,
                             Listed(operations_map[op]))

(***************************************************************************)
(* C4: a step that accesses or invokes a name that is neither a key of     *)
(* the operations table nor an attribute of the client ends with           *)
(* AttributeError, makes no transport call and sends nothing, and leaves   *)
(* the resolution cache as it was.                                         *)
(***************************************************************************)
C4_UnknownName ==
    [][ (/\ pc = "idle"
         /\ pc' = "done"
         /\ op' \notin DOMAIN operations_map
         /\ op' \notin InstanceAttrs)
        => (/\ result'.kind = "raise"
            /\ result'.exc = "AttributeError"
            /\ calls' = <<>>
            /\ wire' = NoRequest
            /\ attempts' = 0
            /\ cache' = cache) ]_vars

\* the unknown name was used after another operation had been resolved
C4_Witness ==
    /\ pc = "done"
    /\ op = "non_existent_method"
    /\ result.exc = "AttributeError"
    /\ DOMAIN cache = {"toggleList"}
    /\ calls = <<>>

(***************************************************************************)
(* C5: a client exists only with a non-empty token: construction without   *)
(* a token or with an empty one ends in ValueError, builds no HttpClient   *)
(* and sends nothing, and every attempt on the wire belongs to a client    *)
(* whose token is non-empty.                                               *)
(***************************************************************************)
C5_TokenRequired ==
    /\ client = "ready" => (http.api_token.some /\ http.api_token.d # "")
    /\ client = "failed" =>
          (result = Raised("ValueError", "api_token is required")
           /\ http = NoHttp)
    /\ client # "ready" =>
          (pc = "idle" /\ calls = <<>> /\ wire = NoRequest /\ attempts = 0
           /\ cache = <<>>)
    /\ (attempts > 0 \/ cache # <<>>) =>
          (client = "ready" /\ http.api_token.d # "")

\* construction failed: the configuration error, and nothing else happened
C5_Witness ==
    /\ client = "failed"
    /\ result.exc = "ValueError"
    /\ http = NoHttp
    /\ attempts = 0

(***************************************************************************)
(* C6: a request whose final response status is outside 200-299 fails      *)
(* with ApiError "Request failed"; it never returns a value.               *)
(***************************************************************************)
Success == 200 .. 299

C6_NonSuccessFails ==
    (pc = "done" /\ calls # <<>> /\ last.status \notin Success) =>
        /\ result.kind = "raise"
        /\ result.exc = "ApiError"
        /\ result.msg = "Request failed: "

(***************************************************************************)
(* C7: a request whose final response has a success status returns and     *)
(* does not raise: the parsed JSON value when the body is JSON, and        *)
(* otherwise the payload {data: body text, status: status code}, also      *)
(* for an empty body.                                                      *)
(***************************************************************************)
C7_SuccessReturns ==
    (pc = "done" /\ calls # <<>> /\ last.status \in Success) =>
        /\ result.kind = "value"
        /\ CASE last.text = BodyObj ->
                  result.val = JObj(<< <<"\"status\"", JAtom("\"ok\"")>> >>)
             [] last.text = BodyArr ->
                  result.val = JArr(<<JAtom("1"), JArr(<<>>)>>)
             [] OTHER ->
                  result.val = [data |-> last.text, status |-> last.status]

\* 200 with a plain-text body came back as the fallback payload
C7_Witness ==
    /\ pc = "done"
    /\ last = Resp(200, FALSE, BodyPlain)
    /\ result.kind = "value"
    /\ result.val = [data |-> BodyPlain, status |-> 200]

(***************************************************************************)
(* C8: an invocation of an operation with a supported method makes one     *)
(* call to the transport verb, with the substituted path and the           *)
(* remaining arguments, and what the caller gets is what the transport     *)
(* produced; an operation without path parameters invoked without          *)
(* arguments calls the verb with the template path and an empty mapping,   *)
(* and no query is sent.                                                   *)
(***************************************************************************)
\* the caller invoked (not only accessed) an operation of the table
Invoked ==
    /\ pc \in {"sending", "done"}
    /\ op \in DOMAIN operations_map
    /\ result.kind # "attr"

\* no argument's string form holds a brace
BraceFree(kw) == \A k \in DOMAIN kw : "{" \notin Range(Str(kw[k]))

C8_OneCall ==
    (Invoked /\ Upper(operations_map[op].method)
                    \in UpperQueryVerbs \cup UpperBodyVerbs) =>
        LET d == operations_map[op] IN
        /\ Len(calls) = 1
        /\ attempts >= 1
        /\ Passed(calls[1]) = Unlisted(d, kwargs)
        /\ BraceFree(kwargs) =>
              calls[1].path = Fill(d.path, kwargs, Listed(d))
        /\ wire.url = api_url \o calls[1].path
        /\ pc = "done" =>
              \/ /\ result.kind = "value"
                 /\ ~raises_for_status(last)
              \/ /\ result.kind = "raise"
                 /\ result.exc = "ApiError"
                 /\ last.status >= 400 \/ last.status = 0
        /\ (op = "fetchApiHealth" /\ kwargs = <<>>) =>
              /\ calls[1] = [kind |-> "call", verb |-> Get, path |-> <<"/">>,
                             params |-> Some(<<>>), json_data |-> None]
              /\ wire = [method |-> <<"G","E","T">>,
                         url |-> api_url \o <<"/">>,
                         params |-> None, json |-> None,
                         headers |-> <<>>]

\* fetchApiHealth() returned the parsed body of a 200 response
C8_Witness ==
    /\ pc = "done"
    /\ op = "fetchApiHealth"
    /\ kwargs = <<>>
    /\ Len(calls) = 1
    /\ attempts = 1
    /\ last = Resp(200, FALSE, BodyObj)
    /\ result = Returned(JObj(<< <<"\"status\"", JAtom("\"ok\"")>> >>))

(***************************************************************************)
(* C9: for each verb the dispatcher issues, a request answered with a      *)
(* transient status (429, 500, 502, 503, 504) is retried until the budget  *)
(* of 3 retries is spent before the failure reaches the caller.            *)
(***************************************************************************)
C9_TransientRetried ==
    (pc = "done" /\ calls # <<>> /\ last.status \in status_forcelist) =>
        /\ attempts = RetryTotal + 1
        /\ result.kind = "raise"
        /\ result.exc = "ApiError"

(***************************************************************************)
(* C10: an invocation whose attempts are all answered makes a second       *)
(* attempt only when its first response had a transient status, and an     *)
(* invocation never makes more than 4 attempts.                            *)
(***************************************************************************)
C10_AttemptsByStatus ==
    /\ attempts <= RetryTotal + 1
    /\ (pc = "sending" /\ attempts = 2 /\ last.status # 0) =>
          last.status \in status_forcelist

(***************************************************************************)
(* C11: every failure an operation invocation surfaces on a constructed    *)
(* client (network failure, error status, unsupported method) is an        *)
(* ApiError that carries its cause and a message.                          *)
(***************************************************************************)
C11_SingleErrorType ==
    (Invoked /\ pc = "done" /\ result.kind = "raise") =>
        /\ result.exc = "ApiError"
        /\ result.cause # ""
        /\ result.msg # ""

(***************************************************************************)
(* C12: an invocation of an operation whose method is none of GET, POST,   *)
(* PUT, PATCH, DELETE ends at once in ValueError, also when the operation  *)
(* was resolved and cached before; no transport verb is called and         *)
(* nothing is sent or retried.                                             *)
(***************************************************************************)
C12_UnsupportedMethod ==
    (Invoked /\ Upper(operations_map[op].method)
                    \notin UpperQueryVerbs \cup UpperBodyVerbs) =>
        /\ pc = "done"
        /\ result = Raised("ValueError", "Unsupported HTTP method: ")
        /\ calls = <<>>
        /\ wire = NoRequest
        /\ attempts = 0
        /\ total = 0

\* traceApi was invoked through its cached method and raised again
C12_Witness ==
    /\ pc = "done"
    /\ op = "traceApi"
    /\ hit
    /\ resolutions["traceApi"] = 1
    /\ result.exc = "ValueError"
    /\ attempts = 0

(***************************************************************************)
(* C13: the resolution cache only grows: a resolved name stays resolved    *)
(* with the same callable, every name is resolved at most once (later      *)
(* accesses are served from the cache), and the cache holds only keys of   *)
(* the operations table.                                                   *)
(***************************************************************************)
C13_CacheGrows ==
    /\ [](/\ DOMAIN cache \subseteq DOMAIN operations_map
          /\ \A n \in DOMAIN operations_map :
                resolutions[n] = IF n \in DOMAIN cache THEN 1 ELSE 0)
    /\ [][ \A n \in DOMAIN cache :
              n \in DOMAIN cache' /\ cache'[n] = cache[n] ]_vars

\* a second use of a resolved name is in flight, served from the cache
C13_Witness ==
    /\ pc = "sending"
    /\ accesses = 2
    /\ hit
    /\ op \in DOMAIN cache
    /\ resolutions[op] = 1

(***************************************************************************)
(* C14: the cache does not change what the client does: every cached       *)
(* callable issues, for every argument mapping, the call a freshly         *)
(* resolved one issues, and each invocation makes the transport call and   *)
(* sends the request (or raises the error) that resolving the descriptor   *)
(* afresh gives.                                                           *)
(***************************************************************************)
\* the callable a client without a cache resolves for the name
Fresh(name) ==
    [path        |-> operations_map[name].path,
     method      |-> Lower(operations_map[name].method),
     path_params |-> IF "pathParams" \in DOMAIN operations_map[name]
                     THEN operations_map[name].pathParams ELSE <<>>]

C14_CacheTransparent ==
    /\ pc = "idle" =>
          \A n \in DOMAIN cache, kw \in KwargsSet :
              operation_method(cache[n], kw) = operation_method(Fresh(n), kw)
    /\ Invoked =>
          LET out == operation_method(Fresh(op), kwargs) IN
          IF out.kind = "raise"
          THEN calls = <<>> /\ result.exc = "ValueError"
          ELSE /\ calls = <<out>>
               /\ wire = verb_request(out)

\* an invocation served from the cache sent what a fresh resolution sends
C14_Witness ==
    /\ pc = "sending"
    /\ hit
    /\ kwargs # <<>>
    /\ calls = <<operation_method(Fresh(op), kwargs)>>

(***************************************************************************)
(* C15: threads that look up names on one client concurrently: under      *)
(* every interleaving a thread that is done with a name of the table      *)
(* holds a callable that issues, for every argument mapping, the call the *)
(* descriptor gives, none of them got an error, the name is in the cache  *)
(* with such a callable (a second setattr of the same name changes        *)
(* nothing a caller sees), and no entry of the cache is ever lost.        *)
(***************************************************************************)
\* the callable issues what the name's descriptor gives
SameRequests(method, name) ==
    \A kw \in KwargsSet :
        operation_method(method, kw) = operation_method(Fresh(name), kw)

C15_ConcurrentResolve ==
    /\ [](\A t \in Callers :
            (callers[t].pc = "done"
                /\ callers[t].name \in DOMAIN operations_map) =>
                /\ ~callers[t].err
                /\ SameRequests(callers[t].method, callers[t].name)
                /\ callers[t].name \in DOMAIN cache
                /\ SameRequests(cache[callers[t].name], callers[t].name))
    /\ [][ \A n \in DOMAIN cache : n \in DOMAIN cache' ]_vars

\* both threads missed the same name, both resolved it, both are done
C15_Witness ==
    /\ \A t \in Callers :
          callers[t].pc = "done" /\ callers[t].name = "fetchCompany"
    /\ resolutions["fetchCompany"] = NumCallers
    /\ DOMAIN cache = {"fetchCompany"}

(***************************************************************************)
(* Vocabulary of the transport properties.                                 *)
(***************************************************************************)
\* the characters a percent escape stands for
EscapeTable ==
    << <<" ", "2", "0">>, <<"\"", "2", "2">>, <<"%", "2", "5">>,
       <<",", "2", "C">>, <<"/", "2", "F">>, <<":", "3", "A">>,
       <<"[", "5", "B">>, <<"]", "5", "D">>, <<"{", "7", "B">>,
       <<"}", "7", "D">> >>

IsEscape(s) ==
    /\ Len(s) >= 3
    /\ s[1] = "%"
    /\ \E i \in DOMAIN EscapeTable :
          EscapeTable[i][2] = s[2] /\ EscapeTable[i][3] = s[3]

\* one percent-decoding of a text, '+' read as a space
RECURSIVE Decoded(_)
Decoded(s) ==
    IF s = <<>> THEN <<>>
    ELSE IF IsEscape(s)
    THEN <<EscapeTable[CHOOSE i \in DOMAIN EscapeTable :
              EscapeTable[i][2] = s[2] /\ EscapeTable[i][3] = s[3]][1]>>
         \o Decoded(SubSeq(s, 4, Len(s)))
    ELSE <<IF Head(s) = "+" THEN " " ELSE Head(s)>> \o Decoded(Tail(s))

\* characters of JSON punctuation, which a percent-encoded text cannot hold
JsonMarks == {"[", "]", "{", "}", "\"", ":", ",", " "}

\* a verb call with a non-empty query parameter map is in flight or done
HasQuery ==
    /\ pc \in {"sending", "done"}
    /\ Len(calls) = 1
    /\ calls[1].params.some
    /\ DOMAIN calls[1].params.d # {}

\* ["test"] and {"key":"value"} as query parameter values
TestList == ListV(<<Elem(<<>>, StrV(<<"t","e","s","t">>))>>)

KeyValueDict ==
    DictV(<<Elem(<<"k","e","y">>, StrV(<<"v","a","l","u","e">>))>>)

Configured(h) ==
    IF h = "Authorization" THEN Truthy(http.api_token)
    ELSE Truthy(http.visitor_id)

DefaultValue(h) ==
    IF h = "Authorization" THEN <<"Basic ", http.api_token.d>>
    ELSE <<http.visitor_id.d>>

IdentityHeaders == {"Authorization", "Tca-Visitor-Id"}

C17_HeadersAlways ==
    sent # NoSent =>
        \A h \in IdentityHeaders :
            /\ (h \in DOMAIN sent.headers) <=> Configured(h)
            /\ Configured(h) => sent.headers[h] = DefaultValue(h)

(***************************************************************************)
(* C17 amended: a request whose per-request headers do not name the        *)
(* header carries Authorization: Basic <token> exactly when a token is     *)
(* configured and Tca-Visitor-Id: <id> exactly when a visitor id is; a     *)
(* per-request header of that name replaces it.  Operation invocations of  *)
(* a Client pass no headers, so each of their requests is authenticated.   *)
(* The configuration never changes after construction.                     *)
(***************************************************************************)
C17_DefaultHeaders ==
    /\ [](sent # NoSent =>
            /\ \A h \in IdentityHeaders :
                  IF h \in DOMAIN wire.headers
                  THEN sent.headers[h] = wire.headers[h]
                  ELSE /\ (h \in DOMAIN sent.headers) <=> Configured(h)
                       /\ Configured(h) => sent.headers[h] = DefaultValue(h)
            /\ Invoked =>
                  /\ wire.headers = <<>>
                  /\ sent.headers["Authorization"] = DefaultValue("Authorization"))
    /\ [][ (client = "ready" \/ client = "transport") =>
              (client' = client /\ http' = http) ]_vars

\* a transport without a token, with a visitor id, sends its second request
C17_Witness ==
    /\ client = "transport"
    /\ ~Truthy(http.api_token)
    /\ Truthy(http.visitor_id)
    /\ accesses = 2
    /\ pc = "sending"
    /\ "Authorization" \notin DOMAIN sent.headers
    /\ sent.headers["Tca-Visitor-Id"] = <<"visitor-123">>

(***************************************************************************)
(* C18: a dict or list query value is on the wire percent-encoded twice    *)
(* (decoding once gives the serializer's text, decoding twice the compact  *)
(* JSON; ["test"] is %255B%2522test%2522%255D), a str, int or bool value   *)
(* once; the members of a JSON body are sent as JSON text, None included,  *)
(* with no percent escape.                                                 *)
(***************************************************************************)
C18_DoubleEncoding ==
    /\ HasQuery =>
          LET p == calls[1].params.d IN
          /\ DOMAIN sent.query = {k \in DOMAIN p : p[k] # NoneV}
          /\ \A k \in DOMAIN sent.query :
                IF p[k].t \in {"list", "dict"}
                THEN /\ Decoded(Decoded(sent.query[k]))
                            = json_dumps(p[k], <<",">>, <<":">>)
                     /\ Decoded(sent.query[k])
                            # json_dumps(p[k], <<",">>, <<":">>)
                     /\ p[k] = TestList =>
                           sent.query[k] =
                              <<"%","2","5","5","B","%","2","5","2","2",
                                "t","e","s","t","%","2","5","2","2",
                                "%","2","5","5","D">>
                ELSE Decoded(sent.query[k])
                        = IF p[k].t = "bool"
                          THEN (IF p[k].n = 1 THEN <<"t","r","u","e">>
                                ELSE <<"f","a","l","s","e">>)
                          ELSE Str(p[k])
    /\ (pc \in {"sending", "done"} /\ Len(calls) = 1) =>
          IF calls[1].json_data.some /\ calls[1].verb \in BodyVerbs
          THEN /\ sent.body.some
               /\ DOMAIN sent.body.d = DOMAIN calls[1].json_data.d
               /\ \A k \in DOMAIN sent.body.d :
                     /\ sent.body.d[k] = json_dumps(calls[1].json_data.d[k],
                                                    <<",", " ">>, <<":", " ">>)
                     /\ "%" \notin Range(sent.body.d[k])
               /\ calls[1].json_data.d = BodyData =>
                     sent.body.d =
                        ("name" :> <<"\"","a"," ","b","\"">>)
                     @@ ("tags" :> <<"[","\"","x","\"",","," ",
                                     "f","a","l","s","e","]">>)
                     @@ ("page" :> <<"n","u","l","l">>)
          ELSE sent.body = None

\* get("c", params={"query": ["test"], "size": 10}) is on the wire
C18_Witness ==
    /\ HasQuery
    /\ op = "http"
    /\ calls[1].params.d = ("query" :> TestList) @@ ("size" :> IntV(10))
    /\ sent.query["size"] = <<"1","0">>
    /\ Len(sent.query["query"]) = 24

====
